---------------------------- MODULE Spec2Model ----------------------------
(***************************************************************************)
(* Role-based access control and listing moderation of the classifieds     *)
(* application (chepochem_app).                                            *)
(*                                                                         *)
(* The database is the state: listings, moderation records, notifications, *)
(* the user_activity_log table (the audit trail) and the per-user          *)
(* statistics.  Calls are served one at a time: a service call or a        *)
(* permission check is one action, taken when no call is being answered;   *)
(* `last' then holds the call (its arguments and its result), `warnings'   *)
(* what it wrote with logger.warning, and `pre' the database as it was     *)
(* before the call, until Return hands the answer to the caller.  A        *)
(* property of a call is thus a property of the state right after it.      *)
(*                                                                         *)
(* Strings of the source that are not ASCII are transliterated:            *)
(*   "Не указана"  ->  "Ne ukazana".                                       *)
(***************************************************************************)
EXTENDS Integers, Sequences, FiniteSets, TLC

VARIABLES listings, moderations, notifications, audit, stats, warnings,
          now, last, pre, reviews, reputation, inflight

vars == <<listings, moderations, notifications, audit, stats, warnings,
          now, last, pre, reviews, reputation, inflight>>

db == [listings |-> listings, moderations |-> moderations,
       notifications |-> notifications, audit |-> audit, stats |-> stats,
       reviews |-> reviews, reputation |-> reputation]

\* The review tables and the review calls in flight
social == <<reviews, reputation, inflight>>

-----------------------------------------------------------------------------
(* Bounds of the model.                                                    *)

\* Listing ids are 1..MaxListings (autoincrement primary keys).
MaxListings == 2

\* The clock is logical: every committed write stamps a fresh, larger time.
MaxTime == 4

\* The writes to the review tables in the specifications about reviews.
MaxReviewTime == 3

-----------------------------------------------------------------------------
(* Values.                                                                 *)

\* Python's None for a nullable DateTimeField (published_at).
NoTime == 0

\* A falsy entity_id (None, or 0): kwargs.get() of a missing parameter.
NoId == 0

\* The id of AnonymousUser (user.id is None).
Anonymous == 0

\* entity_type=None
NoType == "None"

\* get_user_role() returning None.
NoRole == "None"

\* The user has no usable `role' attribute (user.role raises AttributeError).
MissingRole == "<AttributeError>"

\* Authenticated, active users and their roles.  Role names beyond the three
\* of ROLE_PERMISSIONS can be created in the admin site (RoleAdmin).
ActorIds == {1, 2, 3, 4, 5}

RoleOf == (1 :> "user") @@ (2 :> MissingRole) @@ (3 :> "moderator")
          @@ (4 :> "admin") @@ (5 :> "guest")

\* Every caller: the authenticated users and the anonymous one.
Callers == ActorIds \cup {Anonymous}

\* user.role.name as stored, for a user that has a role
HasRole(u, names) == u \in ActorIds /\ RoleOf[u] \in names

is_authenticated(u) == u \in ActorIds

ListingIds == 1 .. MaxListings

\* entity ids a caller can pass: none, an id in use, an id of no listing.
EntityIds == 0 .. (MaxListings + 1)

EntityTypes == {NoType, "listing", "user"}

STATUS_CHOICES == {"draft", "pending", "active", "paused", "sold",
                   "rejected", "expired"}

Titles == {"bike"}

Reasons == {"", "spam"}

\* A row that does not exist.
Absent == [exists |-> FALSE]

\* A row that was deleted: its id is not given again (AutoField)
Deleted == [exists |-> FALSE, deleted |-> TRUE]

-----------------------------------------------------------------------------
(* DjangoRBACManager                                                       *)

UserPermissions == {"create_listing", "edit_own_listing",
                    "delete_own_listing", "leave_review", "report_content",
                    "manage_favorites", "view_profile",
                    "view_own_notifications"}

ModeratorPermissions == UserPermissions \cup
                   {"moderate_listings", "view_reports", "ban_users",
                    "view_moderation_log", "view_all_notifications"}

AdminPermissions == ModeratorPermissions \cup
                   {"manage_users", "manage_categories", "manage_roles",
                    "view_statistics", "system_settings",
                    "backup_management", "view_audit_log",
                    "manage_permissions"}

\* A faulty table: the moderator row lacks a permission of the user row.
ROLE_PERMISSIONS_ModeratorShort == [r \in {"user", "moderator", "admin"} |->
    CASE r = "user"      -> UserPermissions
      [] r = "moderator" -> ModeratorPermissions \ {"leave_review"}
      [] r = "admin"     -> AdminPermissions]

ROLE_PERMISSIONS == [r \in {"user", "moderator", "admin"} |->
    CASE r = "user"      -> UserPermissions
      [] r = "moderator" -> ModeratorPermissions
      [] r = "admin"     -> AdminPermissions]

\* ROLE_PERMISSIONS.get(role, [])
RolePermissionsGet(role) ==
    IF role \in DOMAIN ROLE_PERMISSIONS THEN ROLE_PERMISSIONS[role] ELSE {}

\* Every token a caller may ask for: the catalog and one outside it.
Permissions == AdminPermissions \cup {"fly"}

OwnPermissions == {"edit_own_listing", "delete_own_listing"}

\* A faulty get_user_role: no is_authenticated test.
get_user_role_AnonymousAsUser(u) ==
    IF ~is_authenticated(u) THEN "user"
    ELSE IF RoleOf[u] = MissingRole THEN "user" ELSE RoleOf[u]

get_user_role(u) ==
    IF ~is_authenticated(u) THEN NoRole
    ELSE IF RoleOf[u] = MissingRole THEN "user" ELSE RoleOf[u]

get_user_permissions(u) ==
    LET role == get_user_role(u)
    IN  IF role = NoRole THEN {} ELSE RolePermissionsGet(role)

\* Listing.objects.get(id=entity_id) found a row
ListingExists(ls, id) == id \in DOMAIN ls /\ ls[id].exists

\* A faulty has_permission: the owner test (lines 86-93) is left out.
has_permission_NoOwnerBranch(ls, u, permission, entity_type, entity_id) ==
    IF ~is_authenticated(u) THEN FALSE
    ELSE LET user_role == get_user_role(u)
         IN  IF user_role = NoRole THEN FALSE
             ELSE IF user_role = "admin" THEN TRUE
             ELSE IF user_role = "moderator" /\ permission \in
                       {"moderate_listings", "view_reports", "ban_users"}
                  THEN TRUE
             ELSE permission \in RolePermissionsGet(user_role)

\* A faulty has_permission: admins are looked up in the table.
has_permission_AdminByTable(ls, u, permission, entity_type, entity_id) ==
    IF ~is_authenticated(u) THEN FALSE
    ELSE LET user_role == get_user_role(u)
         IN  IF user_role = NoRole THEN FALSE
             ELSE IF user_role = "moderator" /\ permission \in
                       {"moderate_listings", "view_reports", "ban_users"}
                  THEN TRUE
             ELSE IF entity_type = "listing" /\ entity_id # NoId
                     /\ ListingExists(ls, entity_id)
                     /\ ls[entity_id].user_id = u
                  THEN permission \in OwnPermissions
             ELSE permission \in RolePermissionsGet(user_role)

\* A faulty has_permission: the owner of the listing is granted every token.
has_permission_OwnerAll(ls, u, permission, entity_type, entity_id) ==
    IF ~is_authenticated(u) THEN FALSE
    ELSE LET user_role == get_user_role(u)
         IN  IF user_role = NoRole THEN FALSE
             ELSE IF user_role = "admin" THEN TRUE
             ELSE IF user_role = "moderator" /\ permission \in
                       {"moderate_listings", "view_reports", "ban_users"}
                  THEN TRUE
             ELSE IF entity_type = "listing" /\ entity_id # NoId
                     /\ ListingExists(ls, entity_id)
                     /\ ls[entity_id].user_id = u
                  THEN TRUE
             ELSE permission \in RolePermissionsGet(user_role)

has_permission(ls, u, permission, entity_type, entity_id) ==
    IF ~is_authenticated(u) THEN FALSE
    ELSE LET user_role == get_user_role(u)
         IN  IF user_role = NoRole THEN FALSE
             ELSE IF user_role = "admin" THEN TRUE
             ELSE IF user_role = "moderator" /\ permission \in
                       {"moderate_listings", "view_reports", "ban_users"}
                  THEN TRUE
             ELSE IF entity_type = "listing" /\ entity_id # NoId
                     /\ ListingExists(ls, entity_id)
                     /\ ls[entity_id].user_id = u
                  THEN permission \in OwnPermissions
             ELSE permission \in RolePermissionsGet(user_role)


-----------------------------------------------------------------------------
(* The database after migrations and role setup: no listing yet.           *)

NoCall == [op |-> "none"]

\* UserReputation's defaults: what get_or_create(user=...) creates, and what
\* a user without a row has.
NoReputation ==
    [total_score |-> 0, positive_reviews |-> 0, negative_reviews |-> 0,
     neutral_reviews |-> 0, reputation_level |-> "newbie"]

\* Requests that may be served at the same time (two workers)
Processes == {"w1", "w2"}

\* A worker that is serving no request
Free == [stage |-> "free"]

Init ==
    /\ listings = [l \in ListingIds |-> Absent]
    /\ moderations = << >>
    /\ notifications = << >>
    /\ audit = << >>
    /\ stats = [u \in ActorIds |-> 0]
    /\ warnings = << >>
    /\ now = 0
    /\ last = NoCall
    /\ reviews = << >>
    /\ reputation = [u \in ActorIds |-> NoReputation]
    /\ inflight = [p \in Processes |-> Free]
    /\ pre = [listings |-> [l \in ListingIds |-> Absent],
              moderations |-> << >>, notifications |-> << >>,
              audit |-> << >>, stats |-> [u \in ActorIds |-> 0],
              reviews |-> << >>,
              reputation |-> [u \in ActorIds |-> NoReputation]]

\* No call is being answered.
Idle == last = NoCall

\* The answer of the last call reaches its caller.
Return ==
    /\ ~Idle
    /\ UNCHANGED social
    /\ last' = NoCall
    /\ warnings' = << >>
    /\ pre' = db
    /\ UNCHANGED <<listings, moderations, notifications, audit, stats, now>>

\* User.objects.get(id=...) finds a row (all users of the model are active)
UserExists(u) == u \in ActorIds

\* user.role.name; raises AttributeError (RelatedObjectDoesNotExist) when
\* the user has no role.
RoleNameRaises(u) == RoleOf[u] = MissingRole

-----------------------------------------------------------------------------
(* UserActivityLogger.log_activity: one INSERT into user_activity_log.     *)
(* Every exception (json.dumps of the details, the INSERT) is caught and   *)
(* only logged, so a failed write leaves the table as it was.              *)

log_activity(log, user_id, action, entity_type, entity_id, details, serializable) ==
    IF serializable
    THEN Append(log, [user_id |-> user_id, action |-> action,
                      entity_type |-> entity_type, entity_id |-> entity_id,
                      details |-> details])
    ELSE log

-----------------------------------------------------------------------------
(* Listing.save(): full_clean(), updated_at, and published_at stamped the  *)
(* first time the row is saved as active.                                  *)

ListingSave(row, t) ==
    IF row.status = "active" /\ row.published_at = NoTime
    THEN [row EXCEPT !.published_at = t]
    ELSE row

\* The next autoincrement id, or 0 when the model's ids are used up.
NextListingId ==
    IF \E l \in ListingIds : listings[l] = Absent
    THEN CHOOSE l \in ListingIds :
            listings[l] = Absent /\ \A k \in ListingIds : k < l => listings[k] # Absent
    ELSE 0

-----------------------------------------------------------------------------
(* ListingTransactionService.create_listing_with_images                    *)

CreateListing(u, title, price) ==
    LET valid == title # "" /\ price > 0 /\ UserExists(u)
        id    == NextListingId
        t     == now + 1
    IN  /\ Idle
        /\ UNCHANGED social
        /\ pre' = db
        /\ warnings' = << >>
        /\ IF valid
           THEN /\ id # 0
                /\ now < MaxTime
                /\ listings' = [listings EXCEPT ![id] =
                       ListingSave([exists |-> TRUE, user_id |-> u,
                                    title |-> title, status |-> "pending",
                                    published_at |-> NoTime], t)]
                /\ stats' = [stats EXCEPT ![u] = @ + 1]
                /\ audit' = log_activity(audit, u, "create_listing", "listing",
                                         id, [title |-> title], TRUE)
                /\ now' = t
                /\ last' = [op |-> "create_listing", user |-> u, ok |-> TRUE,
                            listing |-> id]
                /\ UNCHANGED <<moderations, notifications>>
           ELSE /\ last' = [op |-> "create_listing", user |-> u, ok |-> FALSE,
                            listing |-> 0]
                /\ UNCHANGED <<listings, moderations, notifications, audit,
                               stats, now>>

-----------------------------------------------------------------------------
(* ModerationTransactionService.moderate_listing_with_notification         *)
(* The function is one transaction (transaction.atomic): any exception     *)
(* raised in it rolls every write back and is re-raised as ValidationError.*)

\* 'Ваше объявление "{title}" было одобрено и опубликовано.'
ApprovedContent(title) ==
    <<"Vashe obyavlenie ", title, " bylo odobreno i opublikovano.">>

\* A faulty placeholder: the reason as given.
ReasonOrDefault_Raw(reason) == reason

\* reason or "Не указана"
ReasonOrDefault(reason) == IF reason = "" THEN "Ne ukazana" ELSE reason

\* 'Ваше объявление "{title}" было отклонено. Причина: {reason or "Не указана"}'
RejectedContent(title, reason) ==
    <<"Vashe obyavlenie ", title, " bylo otkloneno. Prichina: ",
      ReasonOrDefault(reason)>>

Notification(user, type, title, content, id) ==
    [user |-> user, type |-> type, title |-> title, content |-> content,
     related_entity_type |-> "listing", related_entity_id |-> id]

\* A faulty role check: any existing user passes.
MayModerate_Anyone(m) == UserExists(m)

\* moderator.role.name in ['moderator', 'admin']
MayModerate(m) ==
    UserExists(m) /\ ~RoleNameRaises(m) /\ RoleOf[m] \in {"moderator", "admin"}

\* A faulty lookup: Listing.objects.get(id=listing_id)
GetPending_AnyStatus(l) == ListingExists(listings, l)

\* Listing.objects.get(id=listing_id, status='pending')
GetPending(l) == ListingExists(listings, l) /\ listings[l].status = "pending"

\* A faulty decision: the row loses its owner.
Moderated_DropOwner(row, action, t) ==
    IF action = "approve"
    THEN [row EXCEPT !.status = "active", !.published_at = t,
                     !.user_id = Anonymous]
    ELSE [row EXCEPT !.status = "rejected", !.user_id = Anonymous]

\* The row after the action's assignments, before save()
Moderated(row, action, t) ==
    IF action = "approve"
    THEN [row EXCEPT !.status = "active", !.published_at = t]
    ELSE [row EXCEPT !.status = "rejected"]

\* A faulty notice: user=moderator instead of user=listing.user.
ModerationNotice_ToModerator(row, l, m, action, reason) ==
    IF action = "approve"
    THEN Notification(m, "listing_approved", "Obyavlenie odobreno",
                      ApprovedContent(row.title), l)
    ELSE Notification(m, "listing_rejected", "Obyavlenie otkloneno",
                      RejectedContent(row.title, reason), l)

\* Notification.objects.create(user=listing.user, ...)
ModerationNotice(row, l, m, action, reason) ==
    IF action = "approve"
    THEN Notification(row.user_id, "listing_approved", "Obyavlenie odobreno",
                      ApprovedContent(row.title), l)
    ELSE Notification(row.user_id, "listing_rejected", "Obyavlenie otkloneno",
                      RejectedContent(row.title, reason), l)

Moderate(l, m, action, reason) ==
    LET ok   == MayModerate(m) /\ GetPending(l) /\ action \in {"approve", "reject"}
        t    == now + 1
        call == [op |-> "moderate_listing", listing |-> l, moderator |-> m,
                 action |-> action, reason |-> reason]
    IN  /\ Idle
        /\ UNCHANGED social
        /\ pre' = db
        /\ warnings' = << >>
        /\ IF ok
           THEN /\ now < MaxTime
                /\ listings' = [listings EXCEPT ![l] =
                                   ListingSave(Moderated(@, action, t), t)]
                /\ notifications' = Append(notifications,
                       ModerationNotice(listings[l], l, m, action, reason))
                /\ moderations' = Append(moderations,
                       [listing |-> l, moderator |-> m, action |-> action,
                        reason |-> reason])
                /\ audit' = log_activity(audit, m, "moderate_listing", "listing",
                                l, [action |-> action, reason |-> reason], TRUE)
                /\ now' = t
                /\ last' = call @@ [ok |-> TRUE]
                /\ UNCHANGED stats
           ELSE /\ last' = call @@ [ok |-> FALSE]
                /\ UNCHANGED <<listings, moderations, notifications, audit,
                               stats, now>>

-----------------------------------------------------------------------------
(* ListingTransactionService.update_listing_with_rollback: the owner's     *)
(* edit.  The details handed to log_activity hold the listing's Decimal    *)
(* price, which json.dumps cannot serialize: the entry is never written.   *)

\* A faulty edit: the status is left as it was.
Edited_KeepStatus(row, title) == [row EXCEPT !.title = title]

\* The row after the edit's assignments, before save():
\* listing.title = ...; listing.status = 'pending'
Edited(row, title) == [row EXCEPT !.title = title, !.status = "pending"]

UpdateListing(l, u, title) ==
    LET ok   == ListingExists(listings, l) /\ listings[l].user_id = u
                /\ title # ""
        t    == now + 1
        call == [op |-> "update_listing", listing |-> l, user |-> u]
    IN  /\ Idle
        /\ UNCHANGED social
        /\ pre' = db
        /\ warnings' = << >>
        /\ IF ok
           THEN /\ now < MaxTime
                /\ listings' = [listings EXCEPT ![l] =
                       ListingSave(Edited(@, title), t)]
                /\ audit' = log_activity(audit, u, "update_listing", "listing",
                                l, [new_data |-> [title |-> title]], FALSE)
                /\ now' = t
                /\ last' = call @@ [ok |-> TRUE]
                /\ UNCHANGED <<moderations, notifications, stats>>
           ELSE /\ last' = call @@ [ok |-> FALSE]
                /\ UNCHANGED <<listings, moderations, notifications, audit,
                               stats, now>>

-----------------------------------------------------------------------------
(* views.edit_listing (POST): the owner's edit through the form.  The row  *)
(* is found by id and owner (404 otherwise), the form is validated, the    *)
(* status is set to pending and the row saved.  No audit entry is written. *)

EditListing(l, u, title) ==
    LET ok   == ListingExists(listings, l) /\ listings[l].user_id = u
                /\ title # ""
        t    == now + 1
        call == [op |-> "edit_listing", listing |-> l, user |-> u]
    IN  /\ Idle
        /\ UNCHANGED social
        /\ pre' = db
        /\ warnings' = << >>
        /\ IF ok
           THEN /\ now < MaxTime
                /\ listings' = [listings EXCEPT ![l] =
                       ListingSave(Edited(@, title), t)]
                /\ now' = t
                /\ last' = call @@ [ok |-> TRUE]
                /\ UNCHANGED <<moderations, notifications, audit, stats>>
           ELSE /\ last' = call @@ [ok |-> FALSE]
                /\ UNCHANGED <<listings, moderations, notifications, audit,
                               stats, now>>

-----------------------------------------------------------------------------
(* ListingAdmin: `status' is editable in the admin site's change list,     *)
(* which saves the changed row with Listing.save().  This is how a listing *)
(* becomes paused, sold or expired.                                        *)

AdminSetStatus(l, s) ==
    LET t == now + 1
    IN  /\ Idle
        /\ UNCHANGED social
        /\ ListingExists(listings, l)
        /\ listings[l].status # s
        /\ now < MaxTime
        /\ pre' = db
        /\ warnings' = << >>
        /\ listings' = [listings EXCEPT ![l] =
                           ListingSave([@ EXCEPT !.status = s], t)]
        /\ now' = t
        /\ last' = [op |-> "admin_set_status", listing |-> l, status |-> s]
        /\ UNCHANGED <<moderations, notifications, audit, stats>>

-----------------------------------------------------------------------------
(* Calls of DjangoRBACManager and of the require_permission decorator.     *)

HasPermission(u, p, t, e) ==
    /\ Idle
    /\ UNCHANGED social
    /\ last' = [op |-> "has_permission", user |-> u, permission |-> p,
                entity_type |-> t, entity_id |-> e,
                result |-> has_permission(listings, u, p, t, e)]
    /\ pre' = db
    /\ warnings' = << >>
    /\ UNCHANGED <<listings, moderations, notifications, audit, stats, now>>

GetUserRole(u) ==
    /\ Idle
    /\ UNCHANGED social
    /\ last' = [op |-> "get_user_role", user |-> u,
                result |-> get_user_role(u)]
    /\ pre' = db
    /\ warnings' = << >>
    /\ UNCHANGED <<listings, moderations, notifications, audit, stats, now>>

GetUserPermissions(u) ==
    /\ Idle
    /\ UNCHANGED social
    /\ last' = [op |-> "get_user_permissions", user |-> u,
                result |-> get_user_permissions(u)]
    /\ pre' = db
    /\ warnings' = << >>
    /\ UNCHANGED <<listings, moderations, notifications, audit, stats, now>>

\* The decorators the views are wrapped in: (permission, entity_type).
DecoratorUses == {<<"create_listing", NoType>>,
                  <<"moderate_listings", "listing">>,
                  <<"create_listing", "listing">>,
                  <<"manage_users", "user">>}

\* wrapper(request, ...): 401 or a redirect to the login page for an
\* anonymous request; for a denied one a logger.warning naming the user and
\* the permission, then 403 (json) or PermissionDenied; else the view runs.
RequirePermission(u, use, e, json) ==
    LET p == use[1]
        t == use[2]
        call == [op |-> "require_permission", user |-> u, permission |-> p,
                 entity_type |-> t, entity_id |-> e]
    IN  /\ Idle
        /\ UNCHANGED social
        /\ pre' = db
        /\ IF ~is_authenticated(u)
           THEN /\ last' = call @@ [result |->
                              IF json THEN "401" ELSE "redirect_to_login"]
                /\ warnings' = << >>
           ELSE IF ~has_permission(listings, u, p, t, e)
           THEN /\ last' = call @@ [result |->
                              IF json THEN "403" ELSE "PermissionDenied"]
                /\ warnings' = <<[username |-> u, permission |-> p]>>
           ELSE /\ last' = call @@ [result |-> "view"]
                /\ warnings' = << >>
        /\ UNCHANGED <<listings, moderations, notifications, audit, stats, now>>

-----------------------------------------------------------------------------
(* Authorization: listings are created, and permissions are asked about.   *)

NextAuth ==
    \/ \E u \in ActorIds, title \in Titles : CreateListing(u, title, 100)
    \/ \E u \in Callers, p \in Permissions, t \in EntityTypes, e \in EntityIds :
          HasPermission(u, p, t, e)
    \/ \E u \in Callers : GetUserRole(u)
    \/ \E u \in Callers : GetUserPermissions(u)
    \/ \E u \in Callers, use \in DecoratorUses, e \in EntityIds, json \in BOOLEAN :
          RequirePermission(u, use, e, json)
    \/ Return

SpecAuth == Init /\ [][NextAuth]_vars

-----------------------------------------------------------------------------
(* The moderation workflow: listings are created, edited by their owners,  *)
(* moderated, and have their status changed in the admin site.             *)

Prices == {0, 100}

\* What an edit may send as the new title
NewTitles == {"sofa", ""}

\* Who posts listings in the workflow: a plain user and a moderator (who
\* may then moderate a listing of their own), and a caller with no account.
Posters == {Anonymous, 1, 3}

ModerationActions == {"approve", "reject", "pause"}

Next ==
    \/ \E u \in Posters, title \in Titles \cup {""}, price \in Prices :
          CreateListing(u, title, price)
    \/ \E l \in 1 .. (MaxListings + 1), m \in Callers,
          action \in ModerationActions, reason \in Reasons :
          Moderate(l, m, action, reason)
    \/ \E l \in 1 .. (MaxListings + 1), u \in ActorIds, title \in NewTitles :
          UpdateListing(l, u, title)
    \/ \E l \in ListingIds, s \in STATUS_CHOICES : AdminSetStatus(l, s)
    \/ Return

Spec == Init /\ [][Next]_vars

-----------------------------------------------------------------------------
(* Properties of the authorization engine (checked under SpecAuth).        *)

\* The call being answered is has_permission(...)
Asked == last.op = "has_permission"

\* ... about a listing that exists
AskedAboutListing ==
    /\ Asked
    /\ last.entity_type = "listing"
    /\ ListingExists(listings, last.entity_id)

\* A denial (403 or PermissionDenied) of require_permission
Denied403 ==
    /\ last.op = "require_permission"
    /\ last.result \in {"403", "PermissionDenied"}

\* An audit entry of kind permission_denied for the call being answered
DenialAudited ==
    \E i \in 1 .. Len(audit) :
        /\ audit[i].action = "permission_denied"
        /\ audit[i].user_id = last.user
        /\ audit[i].entity_type = last.entity_type
        /\ audit[i].entity_id = last.entity_id
        /\ audit[i].details = [permission |-> last.permission]

\* C1: an actor with role `user' is denied edit_own_listing and
\* delete_own_listing on an existing listing that another actor owns.
C1_UserDeniedOnListingOfAnother ==
    (/\ AskedAboutListing
     /\ HasRole(last.user, {"user"})
     /\ listings[last.entity_id].user_id # last.user
     /\ last.permission \in OwnPermissions)
    => last.result = FALSE

\* C2: whatever the role of an authenticated actor (user, moderator, admin,
\* a role outside the table, or none at all), edit_own_listing on a listing
\* the actor owns is allowed.
C2_OwnerMayEdit ==
    (/\ AskedAboutListing
     /\ is_authenticated(last.user)
     /\ listings[last.entity_id].user_id = last.user
     /\ last.permission = "edit_own_listing")
    => last.result = TRUE

\* C2 witness: an owner whose role is not in the table was allowed.
C2_Witness ==
    /\ AskedAboutListing
    /\ last.user \in ActorIds
    /\ RoleOf[last.user] = "guest"
    /\ listings[last.entity_id].user_id = last.user
    /\ last.permission = "edit_own_listing"
    /\ last.result = TRUE

\* C3: the anonymous caller is denied every permission on every resource,
\* has no role, and has the empty permission set.
C3_AnonymousDenied ==
    /\ (Asked /\ last.user = Anonymous) => last.result = FALSE
    /\ (last.op = "get_user_role" /\ last.user = Anonymous)
          => last.result = NoRole
    /\ (last.op = "get_user_permissions" /\ last.user = Anonymous)
          => last.result = {}

\* C3 witness: the anonymous caller asked for a permission every role has,
\* about a listing that exists, and was denied.
C3_Witness ==
    /\ AskedAboutListing
    /\ last.user = Anonymous
    /\ last.permission = "view_profile"
    /\ last.result = FALSE

\* C4 as stated: an admin is allowed everything, and the grant is written
\* to the audit trail.
C4_AdminAllowedAndAudited ==
    (Asked /\ get_user_role(last.user) = "admin")
    => /\ last.result = TRUE
       /\ Len(audit) > Len(pre.audit)

\* C4 as amended: an admin is allowed every token (in the table or not) on
\* every resource reference (existing or not, owned or not), and
\* has_permission writes nothing to the audit trail.
C4_AdminAllowed ==
    (Asked /\ get_user_role(last.user) = "admin")
    => /\ last.result = TRUE
       /\ audit = pre.audit

\* C4 witness: an admin was granted a token of no table on a listing that
\* does not exist.
C4_Witness ==
    /\ Asked
    /\ get_user_role(last.user) = "admin"
    /\ last.permission = "fly"
    /\ last.entity_type = "listing"
    /\ last.entity_id # NoId
    /\ ~ListingExists(listings, last.entity_id)
    /\ last.result = TRUE

\* C5: the table is ordered admin >= moderator >= user, and
\* get_user_permissions of a role outside the table is empty.
C5_TableOrdered ==
    /\ ROLE_PERMISSIONS["user"] \subseteq ROLE_PERMISSIONS["moderator"]
    /\ ROLE_PERMISSIONS["moderator"] \subseteq ROLE_PERMISSIONS["admin"]
    /\ (/\ last.op = "get_user_permissions"
        /\ is_authenticated(last.user)
        /\ get_user_role(last.user) \notin DOMAIN ROLE_PERMISSIONS)
       => last.result = {}

\* C5 witness: the permissions of a user with a role outside the table
\* were asked for and came back empty.
C5_Witness ==
    /\ last.op = "get_user_permissions"
    /\ last.user \in ActorIds
    /\ RoleOf[last.user] = "guest"
    /\ last.result = {}

\* C6: a permission of the actor's role, other than the two ownership-scoped
\* ones, is allowed whatever entity_type and entity_id are passed.
C6_RolePermissionAllowed ==
    (/\ Asked
     /\ is_authenticated(last.user)
     /\ last.permission \in get_user_permissions(last.user) \ OwnPermissions)
    => last.result = TRUE

\* C7: every denial of an authenticated actor leaves an audit entry of kind
\* permission_denied with the actor, the permission and the resource.
C7_DenialAudited ==
    (Denied403 /\ is_authenticated(last.user)) => DenialAudited

-----------------------------------------------------------------------------
(* Properties of moderate_listing_with_notification, stated on the call    *)
(* just answered (last) and the tables before it (pre), under Spec.        *)
(* Storage is fault-free in Spec: every INSERT and UPDATE succeeds.        *)

ModerationCall == last.op = "moderate_listing"

\* The call was made by a moderator or admin on a listing then in `pending'
OnPending ==
    /\ ModerationCall
    /\ HasRole(last.moderator, {"moderator", "admin"})
    /\ ListingExists(pre.listings, last.listing)
    /\ pre.listings[last.listing].status = "pending"

\* The tables other than listings grew by exactly one row each
OneRowEach ==
    /\ Len(moderations) = Len(pre.moderations) + 1
    /\ SubSeq(moderations, 1, Len(pre.moderations)) = pre.moderations
    /\ Len(notifications) = Len(pre.notifications) + 1
    /\ SubSeq(notifications, 1, Len(pre.notifications)) = pre.notifications
    /\ Len(audit) = Len(pre.audit) + 1
    /\ SubSeq(audit, 1, Len(pre.audit)) = pre.audit

NewModeration == moderations[Len(moderations)]

NewNotification == notifications[Len(notifications)]

NewAudit == audit[Len(audit)]

\* C8: an approve by a moderator or admin of a pending listing succeeds and
\* leaves the listing active with published_at set, one new moderation
\* record `approve' for that listing and moderator, one notification
\* `listing_approved' addressed to the listing's owner, and one new audit
\* entry `moderate_listing'.
C8_ApprovePending ==
    (OnPending /\ last.action = "approve") =>
        /\ last.ok
        /\ listings[last.listing].status = "active"
        /\ listings[last.listing].published_at # NoTime
        /\ OneRowEach
        /\ NewModeration.action = "approve"
        /\ NewModeration.listing = last.listing
        /\ NewModeration.moderator = last.moderator
        /\ NewNotification.type = "listing_approved"
        /\ NewNotification.user = pre.listings[last.listing].user_id
        /\ NewAudit.action = "moderate_listing"
        /\ NewAudit.user_id = last.moderator
        /\ NewAudit.entity_id = last.listing

\* A moderator approved a pending listing of somebody else
C8_Witness ==
    /\ OnPending /\ last.action = "approve" /\ last.ok
    /\ pre.listings[last.listing].user_id # last.moderator
    /\ listings[last.listing].status = "active"
    /\ NewNotification.user = pre.listings[last.listing].user_id

\* C9: a reject by a moderator or admin of a pending listing succeeds and
\* leaves the listing rejected with published_at as it was, one new
\* moderation record `reject', and one notification `listing_rejected'
\* addressed to the owner whose content ends with the given reason, or with
\* the placeholder "Ne ukazana" when the reason is empty.
C9_RejectPending ==
    (OnPending /\ last.action = "reject") =>
        /\ last.ok
        /\ listings[last.listing].status = "rejected"
        /\ listings[last.listing].published_at =
               pre.listings[last.listing].published_at
        /\ OneRowEach
        /\ NewModeration.action = "reject"
        /\ NewModeration.listing = last.listing
        /\ NewModeration.moderator = last.moderator
        /\ NewNotification.type = "listing_rejected"
        /\ NewNotification.user = pre.listings[last.listing].user_id
        /\ NewNotification.content[Len(NewNotification.content)] =
               (IF last.reason = "" THEN "Ne ukazana" ELSE last.reason)

\* A listing published before was rejected without a reason
C9_Witness ==
    /\ OnPending /\ last.action = "reject" /\ last.ok
    /\ last.reason = ""
    /\ pre.listings[last.listing].published_at # NoTime
    /\ listings[last.listing].status = "rejected"
    /\ NewNotification.content[Len(NewNotification.content)] = "Ne ukazana"

\* The listing named by the call, if any, was not in `pending'
NotPending ==
    /\ ModerationCall
    /\ last.action \in {"approve", "reject"}
    /\ ListingExists(pre.listings, last.listing)
    /\ pre.listings[last.listing].status # "pending"

\* C10: an approve or reject of a listing that is not pending fails and
\* changes nothing: status and published_at are as before and no moderation
\* record, notification or audit entry is written.
C10_NotPendingFails ==
    NotPending =>
        /\ ~last.ok
        /\ listings = pre.listings
        /\ moderations = pre.moderations
        /\ notifications = pre.notifications
        /\ audit = pre.audit

\* A second approve by the moderator who has just approved the listing
C10_Witness ==
    /\ NotPending /\ last.action = "approve" /\ ~last.ok
    /\ HasRole(last.moderator, {"moderator", "admin"})
    /\ pre.listings[last.listing].status = "active"
    /\ Len(pre.moderations) > 0
    /\ pre.moderations[Len(pre.moderations)] =
           [listing |-> last.listing, moderator |-> last.moderator,
            action |-> "approve", reason |-> last.reason]
    /\ listings[last.listing].published_at =
           pre.listings[last.listing].published_at

-----------------------------------------------------------------------------
(* Properties of the listing workflow over sequences of calls (Spec).      *)

\* C11: published_at is written at most once: once a listing has a
\* published_at, no later operation (approve after an owner edit included)
\* overwrites or clears it.
C11_PublishedAtWrittenOnce ==
    \A l \in ListingIds :
        (ListingExists(pre.listings, l) /\ pre.listings[l].published_at # NoTime)
        => /\ ListingExists(listings, l)
           /\ listings[l].published_at = pre.listings[l].published_at

\* The call was made by an actor whose role is neither moderator nor admin
\* (another role, no role, or no account at all)
ByNonModerator ==
    /\ ModerationCall
    /\ last.action \in {"approve", "reject"}
    /\ ~HasRole(last.moderator, {"moderator", "admin"})

\* C12: an approve or reject by an actor whose role is neither moderator nor
\* admin fails whatever the listing's status, pending included, and leaves
\* the listings, the moderation records and the notifications as they were.
C12_NonModeratorFails ==
    ByNonModerator =>
        /\ ~last.ok
        /\ listings = pre.listings
        /\ moderations = pre.moderations
        /\ notifications = pre.notifications

\* An actor with role `user' tried to approve a pending listing
C12_Witness ==
    /\ ByNonModerator /\ ~last.ok
    /\ HasRole(last.moderator, {"user"})
    /\ last.action = "approve"
    /\ ListingExists(pre.listings, last.listing)
    /\ pre.listings[last.listing].status = "pending"
    /\ listings[last.listing].status = "pending"

-----------------------------------------------------------------------------
(* Storage faults in moderate_listing_with_notification.  One statement of *)
(* the call fails with a database error; the statements before it have     *)
(* been executed in the open transaction.  An exception that leaves the    *)
(* function rolls the transaction back (transaction.atomic) and is         *)
(* re-raised as ValidationError.  The exception of the audit INSERT never  *)
(* leaves log_activity (its `except Exception' only logs it), so the call  *)
(* goes on to `return True' and the transaction commits without the entry. *)

\* The statement that fails: listing.save(), Notification.objects.create,
\* ListingModeration.objects.create, or the INSERT of log_activity.
Faults == {"save", "notification", "record", "audit"}

\* Does the failure of this statement raise out of the service function?
FaultRaised(fault) == fault # "audit"

ModerateFault(l, m, action, reason, fault) ==
    LET t    == now + 1
        call == [op |-> "moderate_listing", listing |-> l, moderator |-> m,
                 action |-> action, reason |-> reason, fault |-> fault]
    IN  /\ Idle
        /\ UNCHANGED social
        /\ MayModerate(m) /\ GetPending(l) /\ action \in {"approve", "reject"}
        /\ pre' = db
        /\ warnings' = << >>
        /\ IF FaultRaised(fault)
           THEN /\ last' = call @@ [ok |-> FALSE]
                /\ UNCHANGED <<listings, moderations, notifications, audit,
                               stats, now>>
           ELSE /\ now < MaxTime
                /\ listings' = [listings EXCEPT ![l] =
                                   ListingSave(Moderated(@, action, t), t)]
                /\ notifications' = Append(notifications,
                       ModerationNotice(listings[l], l, m, action, reason))
                /\ moderations' = Append(moderations,
                       [listing |-> l, moderator |-> m, action |-> action,
                        reason |-> reason])
                /\ audit' = log_activity(audit, m, "moderate_listing", "listing",
                                l, [action |-> action, reason |-> reason], FALSE)
                /\ now' = t
                /\ last' = call @@ [ok |-> TRUE]
                /\ UNCHANGED stats

NextFault ==
    \/ \E u \in Posters, title \in Titles : CreateListing(u, title, 100)
    \/ \E l \in ListingIds, m \in Callers, action \in ModerationActions,
          reason \in Reasons : Moderate(l, m, action, reason)
    \/ \E l \in ListingIds, m \in ActorIds, action \in ModerationActions,
          reason \in Reasons, fault \in Faults :
          ModerateFault(l, m, action, reason, fault)
    \/ \E l \in ListingIds, u \in ActorIds, title \in NewTitles :
          UpdateListing(l, u, title)
    \/ Return

SpecFault == Init /\ [][NextFault]_vars

\* Status change, moderation record, notification and audit entry are all in
AllCommitted ==
    /\ ListingExists(listings, last.listing)
    /\ listings[last.listing].status \in {"active", "rejected"}
    /\ Len(moderations) = Len(pre.moderations) + 1
    /\ Len(notifications) = Len(pre.notifications) + 1
    /\ Len(audit) = Len(pre.audit) + 1

NoneCommitted ==
    /\ listings = pre.listings
    /\ moderations = pre.moderations
    /\ notifications = pre.notifications
    /\ audit = pre.audit

\* C13: after every moderation call, with or without a failing statement,
\* either the status change, the moderation record, the notification and
\* the audit entry are all committed or none of them is.
C13_AllOrNothing ==
    ModerationCall => (AllCommitted \/ NoneCommitted)

\* C14: a moderation call is never reported as successful while its audit
\* entry is missing: when the audit write fails, the call fails.
C14_NoSuccessWithoutAudit ==
    (ModerationCall /\ last.ok) =>
        /\ Len(audit) = Len(pre.audit) + 1
        /\ NewAudit.action = "moderate_listing"
        /\ NewAudit.entity_id = last.listing

-----------------------------------------------------------------------------
(* The owner's edits, through the service and through the view.            *)

NextEdit ==
    \/ \E u \in Posters, title \in Titles : CreateListing(u, title, 100)
    \/ \E l \in ListingIds, action \in {"approve", "reject"} :
          Moderate(l, 3, action, "")
    \/ \E l \in 1 .. (MaxListings + 1), u \in ActorIds, title \in NewTitles :
          UpdateListing(l, u, title)
    \/ \E l \in 1 .. (MaxListings + 1), u \in ActorIds, title \in NewTitles :
          EditListing(l, u, title)
    \/ \E l \in ListingIds, s \in STATUS_CHOICES : AdminSetStatus(l, s)
    \/ Return

SpecEdit == Init /\ [][NextEdit]_vars

\* The call being answered is an edit that succeeded
EditSucceeded == last.op \in {"update_listing", "edit_listing"} /\ last.ok

\* C15: after a successful edit by the owner (service or view) the listing
\* is pending, whatever its status was before.
C15_EditedIsPending ==
    EditSucceeded =>
        /\ pre.listings[last.listing].user_id = last.user
        /\ listings[last.listing].status = "pending"

\* An active listing was edited through the view and is pending again
C15_Witness ==
    /\ EditSucceeded
    /\ last.op = "edit_listing"
    /\ pre.listings[last.listing].status = "active"
    /\ listings[last.listing].status = "pending"

-----------------------------------------------------------------------------
(* Reviews and reputation.  `reviews' is the reviews table in insertion    *)
(* order (a row's id is its position: no review is deleted in the model),  *)
(* `reputation' the UserReputation row of each user.                       *)

\* What a caller may send as the rating and as the comment
RatingInputs == 0 .. 6

Comments == {"a fine seller", "ok"}

\* Who writes reviews, and about whom
Reviewers == {1, 3}

ReviewedUsers == {1, 2}

\* reputation level by the thresholds of update_reputation:
\* positive >= total * 0.8, positive >= total * 0.6
reputation_level_NoExpert(positive, total) ==
    IF total = 0 THEN "newbie"
    ELSE IF positive * 10 >= total * 8 THEN "master"
    ELSE "trusted"

reputation_level(positive, total) ==
    IF total = 0 THEN "newbie"
    ELSE IF positive * 10 >= total * 8 THEN "master"
    ELSE IF positive * 10 >= total * 6 THEN "expert"
    ELSE "trusted"

\* reviews.aggregate(total=Sum('rating'))['total'] or 0
RECURSIVE SumRating(_, _)
SumRating(rs, u) ==
    IF rs = << >> THEN 0
    ELSE (IF rs[1].reviewed_user = u THEN rs[1].rating ELSE 0)
         + SumRating(Tail(rs), u)

\* reviews.filter(...).count()
CountReviews(rs, u, positive, low) ==
    Cardinality({i \in DOMAIN rs : /\ rs[i].reviewed_user = u
                                   /\ rs[i].is_positive = positive
                                   /\ (rs[i].rating <= 2) = low})

\* ReputationService.update_user_reputation: the row recomputed from the
\* reviews received by u
update_user_reputation(rs, u) ==
    LET total    == Cardinality({i \in DOMAIN rs : rs[i].reviewed_user = u})
        positive == CountReviews(rs, u, TRUE, TRUE)
                    + CountReviews(rs, u, TRUE, FALSE)
        negative == CountReviews(rs, u, FALSE, TRUE)
        neutral  == CountReviews(rs, u, FALSE, FALSE)
    IN  [total_score |-> SumRating(rs, u), positive_reviews |-> positive,
         negative_reviews |-> negative, neutral_reviews |-> neutral,
         reputation_level |-> reputation_level(positive, total)]

\* A faulty model class: Review.save() leaves the reputation row alone.
review_update_user_reputation_Skip(rep, row) == rep

\* Review.update_user_reputation, called by Review.save(): the stored row
\* with one more review counted, and the level of UserReputation.
\* update_reputation
review_update_user_reputation(rep, row) ==
    LET positive == rep.positive_reviews + (IF row.is_positive THEN 1 ELSE 0)
        negative == rep.negative_reviews
                    + (IF ~row.is_positive /\ row.rating <= 2 THEN 1 ELSE 0)
        neutral  == rep.neutral_reviews
                    + (IF ~row.is_positive /\ row.rating > 2 THEN 1 ELSE 0)
    IN  [total_score |-> rep.total_score + row.rating,
         positive_reviews |-> positive, negative_reviews |-> negative,
         neutral_reviews |-> neutral,
         reputation_level |->
             reputation_level(positive, positive + negative + neutral)]

\* Review.clean and the field validators, run by full_clean() in save()
ReviewClean(row) ==
    /\ row.rating >= 1 /\ row.rating <= 5
    /\ Len(row.comment) >= 10
    /\ row.reviewer # row.reviewed_user

\* A faulty lookup: the pair is never found.
PairTaken_Never(rs, reviewer, reviewed_user, except) == FALSE

\* unique_together = ['reviewer', 'reviewed_user']: another row of the pair
PairTaken(rs, reviewer, reviewed_user, except) ==
    \E i \in DOMAIN rs : /\ i # except
                         /\ rs[i].reviewer = reviewer
                         /\ rs[i].reviewed_user = reviewed_user

\* self.is_positive = self.rating >= 4
Positive_AsGiven(row) == row

Positive(row) == [row EXCEPT !.is_positive = (row.rating >= 4)]

-----------------------------------------------------------------------------
(* ReviewTransactionService.create_review_with_reputation_update: one      *)
(* transaction.  Review.objects.create runs Review.save(), which validates *)
(* the row, inserts it and counts it into the stored reputation; the       *)
(* service then recomputes the reputation and writes the audit entry.      *)

CreateReview(reviewer, reviewed_user, rating, comment) ==
    LET accepted == /\ rating >= 1 /\ rating <= 5
                    /\ reviewer # reviewed_user
                    /\ UserExists(reviewer) /\ UserExists(reviewed_user)
                    /\ ~PairTaken(reviews, reviewer, reviewed_user, 0)
        given == [reviewer |-> reviewer, reviewed_user |-> reviewed_user,
                  rating |-> rating, comment |-> comment,
                  is_positive |-> (rating >= 4)]
        row   == Positive(given)
        rs    == Append(reviews, row)
        saved == [reputation EXCEPT ![reviewed_user] =
                     review_update_user_reputation(@, row)]
        call  == [op |-> "create_review", reviewer |-> reviewer,
                  reviewed_user |-> reviewed_user, rating |-> rating]
    IN  /\ Idle
        /\ UNCHANGED <<listings, moderations, notifications, stats, inflight>>
        /\ pre' = db
        /\ warnings' = << >>
        /\ IF accepted /\ ReviewClean(given)
           THEN /\ now < MaxReviewTime
                /\ reviews' = rs
                /\ reputation' = [saved EXCEPT ![reviewed_user] =
                                     update_user_reputation(rs, reviewed_user)]
                /\ audit' = log_activity(audit, reviewer, "create_review",
                                "review", Len(rs),
                                [reviewed_user_id |-> reviewed_user,
                                 rating |-> rating], TRUE)
                /\ now' = now + 1
                /\ last' = call @@ [ok |-> TRUE, review |-> Len(rs)]
           ELSE /\ last' = call @@ [ok |-> FALSE, review |-> 0]
                /\ UNCHANGED <<reviews, reputation, audit, now>>

-----------------------------------------------------------------------------
(* ServerLogicReviewViewSet.update (PUT/PATCH of the rating by the         *)
(* review's author): serializer.save() runs Review.save(), which validates *)
(* the row, updates it and counts it into the stored reputation once more. *)
(* The reputation is not recomputed on this path.                          *)

UpdateReview(id, u, rating) ==
    LET call  == [op |-> "update_review", review |-> id, user |-> u,
                  rating |-> rating]
        found == id \in DOMAIN reviews
        row   == Positive([reviews[id] EXCEPT !.rating = rating])
    IN  /\ Idle
        /\ UNCHANGED <<listings, moderations, notifications, stats, inflight>>
        /\ pre' = db
        /\ warnings' = << >>
        /\ IF ~found
           THEN /\ last' = call @@ [ok |-> FALSE, result |-> "404"]
                /\ UNCHANGED <<reviews, reputation, audit, now>>
           ELSE IF reviews[id].reviewer # u
           THEN /\ last' = call @@ [ok |-> FALSE, result |-> "403"]
                /\ UNCHANGED <<reviews, reputation, audit, now>>
           ELSE IF ~(rating >= 1 /\ rating <= 5)
           THEN /\ last' = call @@ [ok |-> FALSE, result |-> "400"]
                /\ UNCHANGED <<reviews, reputation, audit, now>>
           ELSE /\ now < MaxReviewTime
                /\ reviews' = [reviews EXCEPT ![id] = row]
                /\ reputation' = [reputation EXCEPT ![row.reviewed_user] =
                                     review_update_user_reputation(@, row)]
                /\ audit' = log_activity(audit, u, "update_review", "review",
                                         id, << >>, TRUE)
                /\ now' = now + 1
                /\ last' = call @@ [ok |-> TRUE, result |-> "200"]

\* Review ids a request may name
ReviewIds == 1 .. 3

NextReview ==
    \/ \E reviewer \in Reviewers, reviewed_user \in ReviewedUsers,
          rating \in RatingInputs, comment \in Comments :
          CreateReview(reviewer, reviewed_user, rating, comment)
    \/ \E id \in ReviewIds, u \in Reviewers, rating \in RatingInputs :
          UpdateReview(id, u, rating)
    \/ Return

SpecReview == Init /\ [][NextReview]_vars

-----------------------------------------------------------------------------
(* Properties of reviews and reputation.                                   *)

\* The reviews received by u
ReceivedBy(rs, u) == {i \in DOMAIN rs : rs[i].reviewed_user = u}

RECURSIVE SumOver(_, _)
SumOver(rs, I) ==
    IF I = {} THEN 0
    ELSE LET i == CHOOSE j \in I : TRUE
         IN  rs[i].rating + SumOver(rs, I \ {i})

\* The reputation as the full recomputation over the reviews received by u:
\* positive = those with is_positive, negative = those rated <= 2 and not
\* positive, neutral = the rest, score = sum of the ratings, and the tier
\* by the share of positive reviews (>= 0.8 master, >= 0.6 expert).
FullRecomputation(rs, u) ==
    LET I        == ReceivedBy(rs, u)
        total    == Cardinality(I)
        positive == Cardinality({i \in I : rs[i].is_positive})
        negative == Cardinality({i \in I : rs[i].rating <= 2
                                           /\ ~rs[i].is_positive})
    IN  [total_score |-> SumOver(rs, I), positive_reviews |-> positive,
         negative_reviews |-> negative,
         neutral_reviews |-> total - positive - negative,
         reputation_level |->
             IF total = 0 THEN "newbie"
             ELSE IF 5 * positive >= 4 * total THEN "master"
             ELSE IF 5 * positive >= 3 * total THEN "expert"
             ELSE "trusted"]

\* C16: after any successful review creations and rating edits, the stored
\* reputation of every user equals the full recomputation over the reviews
\* the user currently has.
C16_ReputationIsRecomputation ==
    \A u \in ActorIds : reputation[u] = FullRecomputation(reviews, u)

-----------------------------------------------------------------------------
(* ReputationService.update_user_reputation called on its own, on review   *)
(* tables built by creations and edits.                                    *)

UpdateUserReputation(u) ==
    /\ Idle
    /\ UNCHANGED <<listings, moderations, notifications, audit, stats, now,
                   reviews, inflight>>
    /\ pre' = db
    /\ warnings' = << >>
    /\ reputation' = [reputation EXCEPT ![u] = update_user_reputation(reviews, u)]
    /\ last' = [op |-> "update_user_reputation", user |-> u]

\* Three reviewers of one user, and the ratings a review may have
ReputationReviewers == {1, 3, 4}

Ratings == 1 .. 5

NextReputation ==
    \/ \E reviewer \in ReputationReviewers, rating \in Ratings :
          CreateReview(reviewer, 2, rating, "a fine seller")
    \/ \E id \in ReviewIds, u \in ReputationReviewers, rating \in Ratings :
          UpdateReview(id, u, rating)
    \/ \E u \in {2, 3} : UpdateUserReputation(u)
    \/ Return

SpecReputation == Init /\ [][NextReputation]_vars

\* The ratings of the reviews received by u, as a bag
RatingsOf(rs, u, r) == Cardinality({i \in ReceivedBy(rs, u) : rs[i].rating = r})

OnlyRatings(rs, u, five, two) ==
    /\ RatingsOf(rs, u, 5) = five
    /\ RatingsOf(rs, u, 2) = two
    /\ Cardinality(ReceivedBy(rs, u)) = five + two

\* C17: update_user_reputation(u) stores the counts, the score and the tier
\* of the full recomputation over the reviews received by u; one review
\* rated 5 gives master, ratings {5, 2} give positive 1, negative 1, trusted.
C17_UpdateStoresRecomputation ==
    (last.op = "update_user_reputation") =>
        /\ reputation[last.user] = FullRecomputation(reviews, last.user)
        /\ \A v \in ActorIds \ {last.user} : reputation[v] = pre.reputation[v]
        /\ OnlyRatings(reviews, last.user, 1, 0)
              => reputation[last.user].reputation_level = "master"
        /\ OnlyRatings(reviews, last.user, 1, 1)
              => /\ reputation[last.user].positive_reviews = 1
                 /\ reputation[last.user].negative_reviews = 1
                 /\ reputation[last.user].reputation_level = "trusted"

\* The row of a user rated 5 and 2 was recomputed after an edit had
\* counted a review twice
C17_Witness ==
    /\ last.op = "update_user_reputation"
    /\ OnlyRatings(reviews, last.user, 1, 1)
    /\ pre.reputation[last.user] # reputation[last.user]
    /\ reputation[last.user].reputation_level = "trusted"
    /\ reputation[last.user].total_score = 7

\* The call being answered is create_review_with_reputation_update(...)
ReviewCall == last.op = "create_review"

\* The pair of the call had a review before the call
Duplicate ==
    \E i \in DOMAIN pre.reviews :
        /\ pre.reviews[i].reviewer = last.reviewer
        /\ pre.reviews[i].reviewed_user = last.reviewed_user

\* C18: a review with a rating outside 1..5, a review of oneself and a
\* second review of the same user by the same reviewer are rejected: the
\* call fails and the reviews, every reputation and the audit log are as
\* they were.
C18_BadReviewRejected ==
    (/\ ReviewCall
     /\ \/ last.rating < 1 \/ last.rating > 5
        \/ last.reviewer = last.reviewed_user
        \/ Duplicate)
    => /\ ~last.ok
       /\ reviews = pre.reviews
       /\ reputation = pre.reputation
       /\ audit = pre.audit

\* A second review of the same user, otherwise valid, was rejected
C18_Witness ==
    /\ ReviewCall /\ ~last.ok
    /\ Duplicate
    /\ last.rating \in 1 .. 5
    /\ last.reviewer # last.reviewed_user
    /\ reviews = pre.reviews
    /\ Len(reviews) > 0

-----------------------------------------------------------------------------
(* Concurrent calls of create_review_with_reputation_update.  A worker     *)
(* first runs the checks of the service against the committed table        *)
(* (BeginCreate); later it inserts the row and commits (InsertReview).     *)
(* Between the two steps the other worker may commit a review of the same  *)
(* pair.  The INSERT then violates the unique constraint of                *)
(* unique_together and the transaction is rolled back.                     *)

\* A faulty schema: no unique constraint on (reviewer, reviewed_user).
unique_together_Missing(rs, reviewer, reviewed_user) == FALSE

\* The INSERT of a row for the pair violates the unique constraint
unique_together(rs, reviewer, reviewed_user) ==
    PairTaken(rs, reviewer, reviewed_user, 0)

RaceRatings == {0, 2, 5}

BeginCreate(p, reviewer, reviewed_user, rating) ==
    LET accepted == /\ rating >= 1 /\ rating <= 5
                    /\ reviewer # reviewed_user
                    /\ UserExists(reviewer) /\ UserExists(reviewed_user)
                    /\ ~PairTaken(reviews, reviewer, reviewed_user, 0)
    IN  /\ inflight[p].stage = "free"
        /\ inflight' = [inflight EXCEPT ![p] =
               [stage |-> IF accepted THEN "checked" ELSE "failed",
                reviewer |-> reviewer, reviewed_user |-> reviewed_user,
                rating |-> rating]]
        /\ UNCHANGED <<listings, moderations, notifications, audit, stats,
                       warnings, now, last, pre, reviews, reputation>>

InsertReview(p) ==
    LET c     == inflight[p]
        given == [reviewer |-> c.reviewer, reviewed_user |-> c.reviewed_user,
                  rating |-> c.rating, comment |-> "a fine seller",
                  is_positive |-> (c.rating >= 4)]
        row   == Positive(given)
        rs    == Append(reviews, row)
        saved == [reputation EXCEPT ![c.reviewed_user] =
                     review_update_user_reputation(@, row)]
    IN  /\ c.stage = "checked"
        /\ UNCHANGED <<listings, moderations, notifications, stats, warnings,
                       last, pre>>
        /\ IF ReviewClean(given)
              /\ ~unique_together(reviews, c.reviewer, c.reviewed_user)
           THEN /\ now < MaxReviewTime
                /\ reviews' = rs
                /\ reputation' = [saved EXCEPT ![c.reviewed_user] =
                                     update_user_reputation(rs, c.reviewed_user)]
                /\ audit' = log_activity(audit, c.reviewer, "create_review",
                                "review", Len(rs),
                                [reviewed_user_id |-> c.reviewed_user,
                                 rating |-> c.rating], TRUE)
                /\ now' = now + 1
                /\ inflight' = [inflight EXCEPT ![p].stage = "done"]
           ELSE /\ inflight' = [inflight EXCEPT ![p].stage = "failed"]
                /\ UNCHANGED <<reviews, reputation, audit, now>>

\* The worker answers its request and is free again
FinishCreate(p) ==
    /\ inflight[p].stage \in {"done", "failed"}
    /\ inflight' = [inflight EXCEPT ![p] = Free]
    /\ UNCHANGED <<listings, moderations, notifications, audit, stats,
                   warnings, now, last, pre, reviews, reputation>>

NextRace ==
    \/ \E p \in Processes, reviewer \in Reviewers,
          reviewed_user \in ReviewedUsers, rating \in RaceRatings :
          BeginCreate(p, reviewer, reviewed_user, rating)
    \/ \E p \in Processes : InsertReview(p)
    \/ \E p \in Processes : FinishCreate(p)

SpecRace == Init /\ [][NextRace]_vars

\* C19: there is at most one review per (reviewer, reviewed user) pair and
\* no review of oneself, also after concurrent creations for the same pair.
C19_OneReviewPerPair ==
    /\ \A i, j \in DOMAIN reviews :
          (/\ reviews[i].reviewer = reviews[j].reviewer
           /\ reviews[i].reviewed_user = reviews[j].reviewed_user) => i = j
    /\ \A i \in DOMAIN reviews : reviews[i].reviewer # reviews[i].reviewed_user

\* Both workers passed the checks for the same pair; one has inserted its
\* review and the other has failed on the constraint
C19_Witness ==
    /\ inflight["w1"].stage = "done"
    /\ inflight["w2"].stage = "failed"
    /\ inflight["w1"].reviewer = inflight["w2"].reviewer
    /\ inflight["w1"].reviewed_user = inflight["w2"].reviewed_user
    /\ inflight["w2"].rating \in 1 .. 5
    /\ inflight["w2"].reviewer # inflight["w2"].reviewed_user
    /\ Len(reviews) = 1

-----------------------------------------------------------------------------
\* C20: every stored review has a rating in 1..5 and is_positive equal to
\* (rating >= 4), after its creation and after every edit of its rating.
C20_RatingAndPositive ==
    \A i \in DOMAIN reviews :
        /\ reviews[i].rating \in 1 .. 5
        /\ reviews[i].is_positive = (reviews[i].rating >= 4)

\* A positive review was edited to a rating below 4 and is no longer positive
C20_Witness ==
    /\ last.op = "update_review" /\ last.ok
    /\ pre.reviews[last.review].is_positive
    /\ reviews[last.review].rating = 3
    /\ ~reviews[last.review].is_positive


-----------------------------------------------------------------------------
(* Concurrent calls of moderate_listing_with_notification.  The service    *)
(* reads the listing with Listing.objects.get(id=..., status='pending'),   *)
(* without select_for_update, and later writes the row, the notification   *)
(* and the moderation record and commits.  Between the read of one worker  *)
(* and its writes the other worker may commit its own decision.  What      *)
(* happens to the later writer is the database's choice: an engine with    *)
(* row locks lets its UPDATE by primary key go through (CommitModerate),   *)
(* an engine with one write lock for the whole database fails it with      *)
(* "database is locked" and the transaction is rolled back                 *)
(* (ModerateLocked).  The code asks for neither.                           *)

RaceModerators == {1, 3}

RaceActions == {"approve", "reject"}

\* lines 266-274: the role check and the read of the pending row
BeginModerate(p, l, m, action) ==
    LET ok == MayModerate(m) /\ GetPending(l)
    IN  /\ inflight[p].stage = "free"
        /\ inflight' = [inflight EXCEPT ![p] =
               [stage |-> IF ok THEN "read" ELSE "failed",
                listing |-> l, moderator |-> m, action |-> action,
                row |-> listings[l]]]
        /\ UNCHANGED <<listings, moderations, notifications, audit, stats,
                       warnings, now, last, pre, reviews, reputation>>

\* lines 276-327 and the commit: listing.save() writes every field of the
\* instance that was read, then the notification, the record and the audit
\* entry are inserted.
CommitModerate(p) ==
    LET c == inflight[p]
        t == now + 1
    IN  /\ c.stage = "read"
        /\ now < MaxTime
        /\ listings' = [listings EXCEPT ![c.listing] =
                           ListingSave(Moderated(c.row, c.action, t), t)]
        /\ notifications' = Append(notifications,
               ModerationNotice(c.row, c.listing, c.moderator, c.action, ""))
        /\ moderations' = Append(moderations,
               [listing |-> c.listing, moderator |-> c.moderator,
                action |-> c.action, reason |-> ""])
        /\ audit' = log_activity(audit, c.moderator, "moderate_listing",
                        "listing", c.listing,
                        [action |-> c.action, reason |-> ""], TRUE)
        /\ now' = t
        /\ inflight' = [inflight EXCEPT ![p].stage = "done"]
        /\ UNCHANGED <<stats, warnings, last, pre, reviews, reputation>>

\* lines 329-333: a write of the call raises because the row was written by
\* another transaction since it was read; everything is rolled back.
ModerateLocked(p) ==
    LET c == inflight[p]
    IN  /\ c.stage = "read"
        /\ listings[c.listing] # c.row
        /\ inflight' = [inflight EXCEPT ![p].stage = "failed"]
        /\ UNCHANGED <<listings, moderations, notifications, audit, stats,
                       warnings, now, last, pre, reviews, reputation>>

\* The worker answers its request and is free again
FinishModerate(p) ==
    /\ inflight[p].stage \in {"done", "failed"}
    /\ inflight' = [inflight EXCEPT ![p] = Free]
    /\ UNCHANGED <<listings, moderations, notifications, audit, stats,
                   warnings, now, last, pre, reviews, reputation>>

NextModerationRace ==
    \/ \E title \in Titles : CreateListing(1, title, 10)
    \/ Return
    \/ \E p \in Processes, l \in ListingIds, m \in RaceModerators,
          action \in RaceActions : BeginModerate(p, l, m, action)
    \/ \E p \in Processes : CommitModerate(p)
    \/ \E p \in Processes : ModerateLocked(p)
    \/ \E p \in Processes : FinishModerate(p)

SpecModerationRace == Init /\ [][NextModerationRace]_vars

\* The moderation records of a listing, and the notices sent about it
RecordsOf(l) == {i \in DOMAIN moderations : moderations[i].listing = l}

NoticesOf(l) ==
    {i \in DOMAIN notifications :
        /\ notifications[i].related_entity_id = l
        /\ notifications[i].type \in {"listing_approved", "listing_rejected"}}

\* C21: of the moderation decisions taken concurrently on one pending
\* listing at most one applies: a listing that was pending once (created,
\* never edited) has at most one moderation record and its owner at most
\* one notification, and its status is that of the recorded decision.
C21_OneDecisionApplies ==
    \A l \in ListingIds :
        /\ Cardinality(RecordsOf(l)) <= 1
        /\ Cardinality(NoticesOf(l)) <= 1
        /\ \A i \in RecordsOf(l) :
              listings[l].status =
                 (IF moderations[i].action = "approve" THEN "active"
                                                        ELSE "rejected")


-----------------------------------------------------------------------------
(* Concurrent calls of create_review_with_reputation_update, statement by  *)
(* statement.  Each call runs in its own transaction: its INSERT and its   *)
(* writes of the reputation row are seen by the other call only after its  *)
(* commit, while each of its own statements reads what is committed at     *)
(* that moment (READ COMMITTED, the isolation level Django sets) together  *)
(* with its own writes.  After the checks (BeginCreate) a call inserts its *)
(* review (InsertOwn), Review.save() counts it into the reputation row     *)
(* (SaveReputation), the service recomputes the row (Recompute) and the    *)
(* transaction commits (CommitReview).  A database with one write lock     *)
(* fails the call whose first write meets the writes of another one        *)
(* (ReviewLocked).                                                         *)

\* The stages at which a call holds writes that are not committed yet
Writing == {"inserted", "saved", "recomputed"}

\* A faulty database: the UPDATE of a row never waits.
ReputationRowLocked_Never(fl, p) == FALSE

\* reputation.save(): the UPDATE of the reputation row waits while another
\* transaction that has written the same row is not committed.
ReputationRowLocked(fl, p) ==
    \E q \in Processes \ {p} :
        /\ fl[q].stage \in {"saved", "recomputed"}
        /\ fl[q].reviewed_user = fl[p].reviewed_user

\* Review.save(): full_clean() and the INSERT; then get_or_create reads the
\* reputation row.  The INSERT waits while a row of the same pair is
\* inserted and not committed.
InsertOwn(p) ==
    LET c     == inflight[p]
        given == [reviewer |-> c.reviewer, reviewed_user |-> c.reviewed_user,
                  rating |-> c.rating, comment |-> "a fine seller",
                  is_positive |-> (c.rating >= 4)]
    IN  /\ c.stage = "checked"
        /\ ~\E q \in Processes \ {p} :
               /\ inflight[q].stage \in Writing
               /\ inflight[q].reviewer = c.reviewer
               /\ inflight[q].reviewed_user = c.reviewed_user
        /\ inflight' = [inflight EXCEPT ![p] =
               IF ReviewClean(given)
                  /\ ~unique_together(reviews, c.reviewer, c.reviewed_user)
               THEN [stage |-> "inserted", reviewer |-> c.reviewer,
                     reviewed_user |-> c.reviewed_user, rating |-> c.rating,
                     row |-> Positive(given), seen |-> Len(reviews),
                     rep |-> reputation[c.reviewed_user]]
               ELSE [c EXCEPT !.stage = "failed"]]
        /\ UNCHANGED <<listings, moderations, notifications, audit, stats,
                       warnings, now, last, pre, reviews, reputation>>

\* Review.update_user_reputation: the row that was read, with the review
\* counted, is written.
SaveReputation(p) ==
    LET c == inflight[p]
    IN  /\ c.stage = "inserted"
        /\ ~ReputationRowLocked(inflight, p)
        /\ inflight' = [inflight EXCEPT ![p] =
               [c EXCEPT !.stage = "saved",
                         !.rep = review_update_user_reputation(c.rep, c.row)]]
        /\ UNCHANGED <<listings, moderations, notifications, audit, stats,
                       warnings, now, last, pre, reviews, reputation>>

\* ReputationService.update_user_reputation: the counts over the committed
\* reviews and the call's own one, written to the reputation row.
Recompute(p) ==
    LET c == inflight[p]
    IN  /\ c.stage = "saved"
        /\ inflight' = [inflight EXCEPT ![p] =
               [c EXCEPT !.stage = "recomputed",
                         !.rep = update_user_reputation(Append(reviews, c.row),
                                                        c.reviewed_user)]]
        /\ UNCHANGED <<listings, moderations, notifications, audit, stats,
                       warnings, now, last, pre, reviews, reputation>>

\* log_activity and the commit of the transaction
CommitReview(p) ==
    LET c == inflight[p]
    IN  /\ c.stage = "recomputed"
        /\ now < MaxReviewTime
        /\ reviews' = Append(reviews, c.row)
        /\ reputation' = [reputation EXCEPT ![c.reviewed_user] = c.rep]
        /\ audit' = log_activity(audit, c.reviewer, "create_review", "review",
                        Len(reviews) + 1,
                        [reviewed_user_id |-> c.reviewed_user,
                         rating |-> c.rating], TRUE)
        /\ now' = now + 1
        /\ inflight' = [inflight EXCEPT ![p].stage = "done"]
        /\ UNCHANGED <<listings, moderations, notifications, stats, warnings,
                       last, pre>>

\* The first write of the call raises "database is locked": another call
\* holds the write lock.  The transaction is rolled back.
ReviewLocked(p) ==
    /\ inflight[p].stage = "checked"
    /\ \E q \in Processes \ {p} : inflight[q].stage \in Writing
    /\ inflight' = [inflight EXCEPT ![p].stage = "failed"]
    /\ UNCHANGED <<listings, moderations, notifications, audit, stats,
                   warnings, now, last, pre, reviews, reputation>>

ReputationRaceReviewers == {1, 3, 4}

ReputationRaceRatings == {0, 2, 5}

NextReputationRace ==
    \/ \E p \in Processes, reviewer \in ReputationRaceReviewers,
          rating \in ReputationRaceRatings :
          BeginCreate(p, reviewer, 1, rating)
    \/ \E p \in Processes : InsertOwn(p)
    \/ \E p \in Processes : SaveReputation(p)
    \/ \E p \in Processes : Recompute(p)
    \/ \E p \in Processes : CommitReview(p)
    \/ \E p \in Processes : ReviewLocked(p)
    \/ \E p \in Processes : FinishCreate(p)

SpecReputationRace == Init /\ [][NextReputationRace]_vars

\* C22: the stored reputation of every user accounts for every committed
\* review of that user, also when reviews of the same user are created
\* concurrently by different reviewers: its counters add up to the number
\* of committed reviews received and the row is the recomputation over
\* them.
C22_NoLostReputationUpdate ==
    \A u \in ActorIds :
        /\ reputation[u].positive_reviews + reputation[u].negative_reviews
              + reputation[u].neutral_reviews
           = Cardinality(ReceivedBy(reviews, u))
        /\ reputation[u] = FullRecomputation(reviews, u)

\* Two reviewers have reviewed user 1 at the same time: each inserted its
\* review when no review was committed, and both have committed
C22_Witness ==
    /\ inflight["w1"].stage = "done" /\ inflight["w2"].stage = "done"
    /\ inflight["w1"].reviewed_user = inflight["w2"].reviewed_user
    /\ inflight["w1"].reviewer # inflight["w2"].reviewer
    /\ inflight["w1"].seen = 0 /\ inflight["w2"].seen = 0
    /\ Len(reviews) = 2
    /\ reputation[1].positive_reviews + reputation[1].negative_reviews
          + reputation[1].neutral_reviews = 2


-----------------------------------------------------------------------------
(* ListingTransactionService.delete_listing_with_rollback: the owner, a    *)
(* moderator or an admin deletes a listing.  The audit entry is written    *)
(* before the deletion, the owner's listings_count is decremented (not     *)
(* below zero), and listing.delete() removes the row together with every   *)
(* row that refers to it with on_delete=CASCADE: ListingModeration.listing *)
(* is such a reference.  Notifications hold the listing's id as a plain    *)
(* number and stay.                                                        *)

\* on_delete=models.CASCADE of ListingModeration.listing
CascadeDelete(ms, l) == SelectSeq(ms, LAMBDA r : r.listing # l)

\* A faulty check: every existing user may delete.
MayDelete_Anyone(row, u) == TRUE

\* listing.user_id == user_id or user.role.name in ['moderator', 'admin']
MayDelete(row, u) ==
    \/ row.user_id = u
    \/ ~RoleNameRaises(u) /\ RoleOf[u] \in {"moderator", "admin"}

DeleteListing(l, u) ==
    LET found == ListingExists(listings, l) /\ UserExists(u)
        ok    == found /\ MayDelete(listings[l], u)
        owner == listings[l].user_id
        call  == [op |-> "delete_listing", listing |-> l, user |-> u]
    IN  /\ Idle
        /\ UNCHANGED social
        /\ pre' = db
        /\ warnings' = << >>
        /\ IF ok
           THEN /\ audit' = log_activity(audit, u, "delete_listing", "listing",
                                l, [title |-> listings[l].title], TRUE)
                /\ stats' = [stats EXCEPT ![owner] =
                                IF @ - 1 > 0 THEN @ - 1 ELSE 0]
                /\ listings' = [listings EXCEPT ![l] = Deleted]
                /\ moderations' = CascadeDelete(moderations, l)
                /\ last' = call @@ [ok |-> TRUE]
                /\ UNCHANGED <<notifications, now>>
           ELSE /\ last' = call @@ [ok |-> FALSE]
                /\ UNCHANGED <<listings, moderations, notifications, audit,
                               stats, now>>

Owners == {1, 3}

Deleters == {1, 2, 3, 5}

NextDelete ==
    \/ \E u \in Owners, title \in Titles : CreateListing(u, title, 10)
    \/ \E l \in ListingIds, action \in {"approve", "reject"} :
          Moderate(l, 3, action, "")
    \/ \E l \in ListingIds, u \in Owners : UpdateListing(l, u, "sofa")
    \/ \E l \in ListingIds, u \in Deleters : DeleteListing(l, u)
    \/ Return

SpecDelete == Init /\ [][NextDelete]_vars

\* C23: moderation records are append-only under approve, reject, create,
\* update and delete: the records that existed before a call are still
\* there, unchanged and in place, after it, and the call has added one
\* record exactly when it is a successful moderation decision.
C23_RecordsAppendOnly ==
    /\ Len(moderations) >= Len(pre.moderations)
    /\ SubSeq(moderations, 1, Len(pre.moderations)) = pre.moderations
    /\ Len(moderations) - Len(pre.moderations) =
          (IF last.op = "moderate_listing" /\ last.ok THEN 1 ELSE 0)


-----------------------------------------------------------------------------
(* create_listing_with_images with a list of images and one statement that *)
(* fails.  The statements run in order: the listing row, one row per       *)
(* image, the owner's listings_count, the audit entry.  An exception of    *)
(* an image insert, of stats.save() or of any other statement inside the   *)
(* function leaves it through `except Exception' as a ValidationError and  *)
(* @transaction.atomic rolls back what the call has written.  The          *)
(* exception of the audit INSERT stays inside log_activity.                *)

\* The statement that fails, if any
CreateFaults == {"none", "image", "stats", "error", "audit"}

\* A faulty service: no transaction, the writes made before the exception
\* stay.
atomic_NoRollback(raised, before, reached) == reached

\* @transaction.atomic: the tables after the call
atomic(raised, before, reached) == IF raised THEN before ELSE reached

ImageCounts == 0 .. 2

CreateListingWithImages(u, title, price, n, fault) ==
    LET id      == NextListingId
        t       == now + 1
        raised  == fault \in {"image", "stats", "error"}
        \* image rows inserted when the function is left
        images  == IF fault = "image" THEN n - 1 ELSE n
        row     == ListingSave([exists |-> TRUE, user_id |-> u,
                                title |-> title, status |-> "pending",
                                published_at |-> NoTime, images |-> images], t)
        before  == [listings |-> listings, stats |-> stats, audit |-> audit,
                    now |-> now]
        reached ==
            [listings |-> [listings EXCEPT ![id] = row],
             stats    |-> IF fault \in {"image", "stats"} THEN stats
                          ELSE [stats EXCEPT ![u] = @ + 1],
             audit    |-> log_activity(audit, u, "create_listing", "listing",
                              id, [title |-> title], fault = "none"),
             now      |-> t]
        after   == atomic(raised, before, reached)
    IN  /\ Idle
        /\ UNCHANGED social
        /\ title # "" /\ price > 0 /\ UserExists(u)
        /\ fault = "image" => n > 0
        /\ id # 0
        /\ now < MaxTime
        /\ pre' = db
        /\ warnings' = << >>
        /\ listings' = after.listings
        /\ stats' = after.stats
        /\ audit' = after.audit
        /\ now' = after.now
        /\ last' = [op |-> "create_listing", user |-> u, ok |-> ~raised,
                    listing |-> IF raised THEN 0 ELSE id,
                    images |-> n, fault |-> fault]
        /\ UNCHANGED <<moderations, notifications>>

NextCreate ==
    \/ \E u \in Owners, title \in Titles, n \in ImageCounts,
          fault \in CreateFaults : CreateListingWithImages(u, title, 10, n, fault)
    \/ \E l \in ListingIds, u \in Owners : DeleteListing(l, u)
    \/ Return

SpecCreate == Init /\ [][NextCreate]_vars

\* C24: when an image insert, the update of listings_count or another
\* statement inside the transaction raises after the listing row was
\* created, the call fails and nothing of it remains: no listing row (and
\* with it no image row), the owner's listings_count and the audit log as
\* before the call.
C24_CreationAtomic ==
    (last.op = "create_listing" /\ last.fault \in {"image", "stats", "error"})
    => /\ ~last.ok
       /\ listings = pre.listings
       /\ stats = pre.stats
       /\ audit = pre.audit

\* The second image of a user's second listing could not be inserted: the
\* call has failed and the user still has one listing
C24_Witness ==
    /\ last.op = "create_listing" /\ last.fault = "image" /\ last.images = 2
    /\ ~last.ok
    /\ stats[last.user] = 1
    /\ listings[2] = Absent
    /\ ListingExists(listings, 1)


-----------------------------------------------------------------------------
(* ListingViewSet.create: ListingCreateSerializer.create calls             *)
(* Listing.objects.create with the validated fields and the request's     *)
(* user.                                                                   *)
(* `status' is not a field of the serializer, so the row takes the         *)
(* default of the model.  Neither listings_count nor the audit log is      *)
(* written on this path.                                                   *)

\* A faulty default: new rows are active.
DefaultStatus_Active == "active"

\* Listing.status: default='draft'
DefaultStatus == "draft"

CreateDraft(u, title) ==
    LET valid == title # "" /\ is_authenticated(u)
        id    == NextListingId
        t     == now + 1
    IN  /\ Idle
        /\ UNCHANGED social
        /\ pre' = db
        /\ warnings' = << >>
        /\ UNCHANGED <<moderations, notifications, audit, stats>>
        /\ IF valid
           THEN /\ id # 0
                /\ now < MaxTime
                /\ listings' = [listings EXCEPT ![id] =
                       ListingSave([exists |-> TRUE, user_id |-> u,
                                    title |-> title, status |-> DefaultStatus,
                                    published_at |-> NoTime], t)]
                /\ now' = t
                /\ last' = [op |-> "api_create_listing", user |-> u,
                            ok |-> TRUE, listing |-> id]
           ELSE /\ last' = [op |-> "api_create_listing", user |-> u,
                            ok |-> FALSE, listing |-> 0]
                /\ UNCHANGED <<listings, now>>

NextDraft ==
    \/ \E u \in Posters, title \in Titles, price \in Prices :
          CreateListing(u, title, price)
    \/ \E u \in Posters, title \in NewTitles : CreateDraft(u, title)
    \/ \E l \in ListingIds, m \in {1, 3}, action \in {"approve", "reject"} :
          Moderate(l, m, action, "")
    \/ Return

SpecDraft == Init /\ [][NextDraft]_vars

\* C25: a listing created through create_listing_with_images starts as
\* pending, a listing created without an explicit status starts as draft,
\* and in both cases published_at is unset: no listing is active when it
\* has just been created.
C25_InitialStatus ==
    /\ (last.op = "create_listing" /\ last.ok)
       => /\ listings[last.listing].status = "pending"
          /\ listings[last.listing].published_at = NoTime
    /\ (last.op = "api_create_listing" /\ last.ok)
       => /\ listings[last.listing].status = "draft"
          /\ listings[last.listing].published_at = NoTime
    /\ \A l \in ListingIds :
          (ListingExists(listings, l) /\ ~ListingExists(pre.listings, l))
          => listings[l].status # "active"

\* A draft has just been created next to a listing that was approved
C25_Witness ==
    /\ last.op = "api_create_listing" /\ last.ok /\ last.listing = 2
    /\ listings[2].status = "draft"
    /\ listings[1].status = "active"


-----------------------------------------------------------------------------
\* C26: sold and expired are terminal for the core operations: a call of
\* Approve, Reject or of the owner's edit (service or form) leaves the
\* status of every listing that was sold or expired before the call as it
\* was.
C26_SoldExpiredTerminal ==
    last.op \in {"moderate_listing", "update_listing", "edit_listing"}
    => \A l \in ListingIds :
          (/\ ListingExists(pre.listings, l)
           /\ pre.listings[l].status \in {"sold", "expired"})
          => /\ ListingExists(listings, l)
             /\ listings[l].status = pre.listings[l].status


-----------------------------------------------------------------------------
(* create_review_with_reputation_update with one statement that fails.     *)
(*   insert: the INSERT of Review.save() raises; the exception leaves the  *)
(*           service and the transaction is rolled back.                   *)
(*   save:   the write of the reputation row in Review.update_user_        *)
(*           reputation raises, with the same outcome.                     *)
(*   count:  a query of ReputationService.update_user_reputation raises;   *)
(*           its `except Exception' only logs, the service goes on and     *)
(*           commits the review with the row as Review.save() left it.     *)
(*   write:  reputation.save() of ReputationService.update_user_reputation *)
(*           raises.  Model.save marks the open transaction for rollback   *)
(*           before the exception is swallowed; the audit INSERT is then   *)
(*           refused (and swallowed), the service returns the review's id  *)
(*           and transaction.atomic rolls everything back on exit.         *)
(*   audit:  the audit INSERT raises inside log_activity, which swallows   *)
(*           it; the rest is committed.                                    *)

ReviewFaults == {"insert", "save", "count", "write", "audit"}

\* The exception leaves the service function
ReviewFaultRaised(fault) == fault \in {"insert", "save"}

\* The transaction is rolled back when the atomic block is left
ReviewRolledBack(fault) == ReviewFaultRaised(fault) \/ fault = "write"

CreateReviewFault(reviewer, reviewed_user, rating, fault) ==
    LET accepted == /\ rating >= 1 /\ rating <= 5
                    /\ reviewer # reviewed_user
                    /\ UserExists(reviewer) /\ UserExists(reviewed_user)
                    /\ ~PairTaken(reviews, reviewer, reviewed_user, 0)
        given == [reviewer |-> reviewer, reviewed_user |-> reviewed_user,
                  rating |-> rating, comment |-> "a fine seller",
                  is_positive |-> (rating >= 4)]
        row   == Positive(given)
        rs    == Append(reviews, row)
        saved == [reputation EXCEPT ![reviewed_user] =
                     review_update_user_reputation(@, row)]
        before  == [reviews |-> reviews, reputation |-> reputation,
                    audit |-> audit, now |-> now]
        reached ==
            [reviews    |-> rs,
             reputation |-> IF fault = "count" THEN saved
                            ELSE [saved EXCEPT ![reviewed_user] =
                                     update_user_reputation(rs, reviewed_user)],
             audit      |-> log_activity(audit, reviewer, "create_review",
                                "review", Len(rs),
                                [reviewed_user_id |-> reviewed_user,
                                 rating |-> rating], fault # "audit"),
             now        |-> now + 1]
        after == atomic(ReviewRolledBack(fault), before, reached)
    IN  /\ Idle
        /\ accepted /\ ReviewClean(given)
        /\ now < MaxReviewTime
        /\ UNCHANGED <<listings, moderations, notifications, stats, inflight>>
        /\ pre' = db
        /\ warnings' = << >>
        /\ reviews' = after.reviews
        /\ reputation' = after.reputation
        /\ audit' = after.audit
        /\ now' = after.now
        /\ last' = [op |-> "create_review", reviewer |-> reviewer,
                    reviewed_user |-> reviewed_user, rating |-> rating,
                    ok |-> ~ReviewFaultRaised(fault),
                    review |-> IF ReviewFaultRaised(fault) THEN 0 ELSE Len(rs),
                    fault |-> fault]

FaultRatings == {2, 3, 5}

NextReviewFault ==
    \/ \E reviewer \in Reviewers, reviewed_user \in ReviewedUsers,
          rating \in FaultRatings :
          CreateReview(reviewer, reviewed_user, rating, "a fine seller")
    \/ \E reviewer \in Reviewers, reviewed_user \in ReviewedUsers,
          rating \in FaultRatings, fault \in ReviewFaults :
          CreateReviewFault(reviewer, reviewed_user, rating, fault)
    \/ \E id \in 1 .. 2, u \in Reviewers, rating \in FaultRatings :
          UpdateReview(id, u, rating)
    \/ Return

SpecReviewFault == Init /\ [][NextReviewFault]_vars

\* The number of reviews counted in a reputation row
Counted(rep) ==
    rep.positive_reviews + rep.negative_reviews + rep.neutral_reviews

\* The call has committed a review
ReviewCommitted ==
    /\ last.op = "create_review"
    /\ Len(reviews) = Len(pre.reviews) + 1

\* C27: whenever create_review_with_reputation_update has committed a
\* review, the stored reputation of the reviewed user holds the review's
\* contribution, also when a statement of the reputation update has
\* failed: the row is the recomputation over all reviews of the user, the
\* new one included, or the previous row with the new review counted in
\* (one more review, the score raised by its rating).
C27_CommittedReviewIsCounted ==
    ReviewCommitted =>
        LET v == last.reviewed_user
        IN  \/ reputation[v] = FullRecomputation(reviews, v)
            \/ /\ Counted(reputation[v]) = Counted(pre.reputation[v]) + 1
               /\ reputation[v].total_score
                     = pre.reputation[v].total_score + last.rating

\* The recount failed while the second review of a user was created: the
\* review is committed and the row counts two reviews
C27_Witness ==
    /\ ReviewCommitted
    /\ "fault" \in DOMAIN last
    /\ last.fault = "count"
    /\ Len(reviews) = 2
    /\ reviews[1].reviewed_user = last.reviewed_user
    /\ Counted(reputation[last.reviewed_user]) = 2


-----------------------------------------------------------------------------
\* A token was granted to an authenticated actor whose role is not admin
GrantedToNonAdmin ==
    /\ Asked
    /\ is_authenticated(last.user)
    /\ get_user_role(last.user) # "admin"
    /\ last.result = TRUE

\* The actor owns the listing the question names
AskedByOwner ==
    /\ AskedAboutListing
    /\ last.entity_id # NoId
    /\ listings[last.entity_id].user_id = last.user

\* C28 as stated: has_permission never grants outside the catalog for
\* non-admin actors: a token granted to an authenticated actor whose role
\* is not admin is in the capability set of the actor's role, whatever the
\* resource type and id.
C28_GrantedInCatalog ==
    GrantedToNonAdmin
    => last.permission \in RolePermissionsGet(get_user_role(last.user))

\* C28 as amended: a token granted to an authenticated actor whose role is
\* not admin is in the capability set of the actor's role, or it is
\* edit_own_listing or delete_own_listing and the actor owns the listing
\* the question names.
C28_GrantedInCatalogOrToOwner ==
    GrantedToNonAdmin
    => \/ last.permission \in RolePermissionsGet(get_user_role(last.user))
       \/ AskedByOwner /\ last.permission \in OwnPermissions

\* The owner of a listing whose role is not in the table was granted
\* delete_own_listing on it
C28_Witness ==
    /\ GrantedToNonAdmin
    /\ AskedByOwner
    /\ last.permission = "delete_own_listing"
    /\ RolePermissionsGet(get_user_role(last.user)) = {}


-----------------------------------------------------------------------------
\* An actor with role user has called the update or the delete service on
\* a listing that exists and belongs to someone else
ByForeignUser ==
    /\ last.op \in {"update_listing", "delete_listing"}
    /\ last.user \in ActorIds
    /\ RoleOf[last.user] = "user"
    /\ ListingExists(pre.listings, last.listing)
    /\ pre.listings[last.listing].user_id # last.user

\* C29: an actor with role user who does not own a listing can neither
\* update nor delete it through the services: the call fails, and the
\* listing (existence, fields, status), every listings_count and the audit
\* log are as before the call.
C29_ForeignUserFails ==
    ByForeignUser
    => /\ ~last.ok
       /\ listings = pre.listings
       /\ stats = pre.stats
       /\ audit = pre.audit
       /\ moderations = pre.moderations

\* A user has tried to delete an approved listing of someone else and has
\* failed
C29_Witness ==
    /\ ByForeignUser
    /\ last.op = "delete_listing"
    /\ ~last.ok
    /\ listings[last.listing].status = "active"
    /\ stats[listings[last.listing].user_id] = 1


-----------------------------------------------------------------------------
\* C30: no core operation changes the owner of a listing: a listing that
\* was just created belongs to the caller of the creation, and after every
\* call (create, owner edit, Approve, Reject) every listing that existed
\* before it has the owner it had; a moderation call leaves every other
\* listing, its status and published_at included, as it was.
C30_OwnerAndOthersUnchanged ==
    /\ (last.op = "create_listing" /\ last.ok)
       => listings[last.listing].user_id = last.user
    /\ \A l \in ListingIds :
          ListingExists(pre.listings, l)
          => /\ ListingExists(listings, l)
             /\ listings[l].user_id = pre.listings[l].user_id
    /\ last.op = "moderate_listing"
       => \A l \in ListingIds \ {last.listing} :
             /\ listings[l] = pre.listings[l]
             /\ ListingExists(listings, l)
                => /\ listings[l].status = pre.listings[l].status
                   /\ listings[l].published_at = pre.listings[l].published_at

\* A listing was rejected while another owner's listing was active: the
\* active one kept its status and its publication time
C30_Witness ==
    /\ last.op = "moderate_listing" /\ last.ok /\ last.action = "reject"
    /\ \E l \in ListingIds \ {last.listing} :
          /\ ListingExists(listings, l)
          /\ listings[l].status = "active"
          /\ listings[l].published_at # NoTime
          /\ listings[l].published_at = pre.listings[l].published_at
          /\ listings[l].user_id # listings[last.listing].user_id

=============================================================================
